---- MODULE Spec2Model ----
(***************************************************************************)
(* DynamicRPC (src/userplugins/DynamicRPC/index.tsx): the rich-presence    *)
(* payload builder (createActivity), the publish cycle (setRpc), the two   *)
(* rotation lanes with their setInterval timers, and the plugin's          *)
(* start()/stop() hooks.                                                   *)
(*                                                                         *)
(* Conventions.  A lane-indexed function stands for the pair of module     *)
(* variables of the source: currentIndex["details"] is                     *)
(* detailsCurrentIndex, intervalId["state"] is stateIntervalId, and so on. *)
(* null is 0 for the numbers the code only tests for truthiness            *)
(* (interval handles, nowModeStartTime).  A multi-line setting is kept as  *)
(* the sequence of its lines (what split('\n') returns); <<>> is the       *)
(* unset setting and <<"">> the empty string.  Time is counted in whole    *)
(* seconds; Date.now() is the variable clock.                              *)
(***************************************************************************)
EXTENDS Integers, Sequences, FiniteSets, TLC

\* ------------------------------------------------------------------ bounds
MaxClock == 4        \* the clock stops advancing here
MaxPending == 2      \* publish cycles / builds suspended in asset resolution
MaxStops == 2        \* stop() calls between two start() calls
RandomGrid == 3      \* Math.random() is drawn from {0/G, ..., (G-1)/G}

\* --------------------------------------------------------------- constants
Lanes == {"details", "state"}
Undefined == "<undefined>"

\* ActivityType (discord-types/enums)
PLAYING == 0
STREAMING == 1

\* enum TimestampMode
NONE == 0
NOW == 1
TIME == 2
CUSTOM == 3

\* seconds in the model's day (TIME mode subtracts the seconds since midnight)
DayLength == 4

\* ------------------------------------------------------------ JS helpers
\* truthiness of a string value
isTruthy(s) == s # "" /\ s # Undefined

\* a || b on strings
OrElse(a, b) == IF isTruthy(a) THEN a ELSE b

\* line.trim() !== ''
NotBlank(line) == line \notin {"", " ", "\t"}

\* truthiness of a multi-line setting kept as its lines
LinesTruthy(raw) == raw # <<>> /\ raw # <<"">>

\* xs.filter(p) for the two filters of the source
RECURSIVE FilterNotBlank(_)
FilterNotBlank(xs) ==
    IF xs = <<>> THEN <<>>
    ELSE IF NotBlank(Head(xs)) THEN <<Head(xs)>> \o FilterNotBlank(Tail(xs))
         ELSE FilterNotBlank(Tail(xs))

RECURSIVE FilterTruthy(_)
FilterTruthy(xs) ==
    IF xs = <<>> THEN <<>>
    ELSE IF isTruthy(Head(xs)) THEN <<Head(xs)>> \o FilterTruthy(Tail(xs))
         ELSE FilterTruthy(Tail(xs))

\* raw.split('\n').filter(line => line.trim() !== '')
ParseLines(raw) == FilterNotBlank(raw)

\* lines[i] with JS indexing: 0-based, undefined when out of range
At(lines, i) == IF i >= 0 /\ i < Len(lines) THEN lines[i + 1] ELSE Undefined

\* Math.floor(Math.random() * n) for Math.random() = r / RandomGrid
RandomIndex(r, n) == (r * n) \div RandomGrid

\* the one element of a singleton set.  Only({F(x) : x \in {e}}) is F(e) with e
\* evaluated once: the operators below are written as such pipelines.
Only(S) == CHOOSE v \in S : TRUE

\* obj[k] = v
Put(obj, k, v) ==
    Only({[x \in (DOMAIN o) \cup {k} |-> IF x = k THEN v ELSE o[x]] : o \in {obj}})

\* the per-lane settings of settings.store
RandomMode(s, lane) == IF lane = "details" THEN s.detailsRandomMode ELSE s.stateRandomMode
RandomLines(s, lane) == IF lane = "details" THEN s.detailsRandomLines ELSE s.stateRandomLines
RandomInterval(s, lane) == IF lane = "details" THEN s.detailsRandomInterval ELSE s.stateRandomInterval
StaticText(s, lane) == IF lane = "details" THEN s.details ELSE s.state

\* ------------------------------------------------------------------ state
VARIABLES
    settings,          \* settings.store
    currentIndex,      \* detailsCurrentIndex, stateCurrentIndex
    intervalId,        \* detailsIntervalId, stateIntervalId (0 = null)
    lastLines,         \* lastDetailsLines, lastStateLines
    nowModeStartTime,  \* 0 = null
    timers,            \* the live setInterval timers of the event loop
    clock,             \* Date.now(), in seconds
    pending,           \* calls suspended in an await of getApplicationAsset
    sink,              \* the last LOCAL_ACTIVITY_UPDATE dispatched
    enabled,           \* the host's view: start() ran and stop() has not
    hist               \* observations of the run (history; no action's effect on
                       \* the variables above depends on it, but for the cap on stop())

vars == <<settings, currentIndex, intervalId, lastLines, nowModeStartTime,
          timers, clock, pending, sink, enabled, hist>>

\* the module-level variables of the source, as one value
Module ==
    [currentIndex |-> currentIndex, intervalId |-> intervalId,
     lastLines |-> lastLines, nowModeStartTime |-> nowModeStartTime,
     timers |-> timers]

\* ----------------------------------------------------------------- timers
\* setInterval returns a handle no live timer has
NewTimerId(tms) ==
    CHOOSE n \in 1..(Cardinality(tms) + 1) :
        /\ \A t \in tms : t.id # n
        /\ \A k \in 1..(n - 1) : \E t \in tms : t.id = k

\* clearInterval(id)
clearInterval(tms, id) == {t \in tms : t.id # id}

\* ClearLane forgetting the clearInterval: the handle is dropped, the timer lives
ClearLaneHandleOnly(m, lane) == [m EXCEPT !.intervalId[lane] = 0]

\* "if (detailsIntervalId) { clearInterval(detailsIntervalId); detailsIntervalId = null; }"
\* and its twin for state
ClearLane(m, lane) ==
    IF m.intervalId[lane] # 0
    THEN [m EXCEPT !.timers = clearInterval(@, m.intervalId[lane]),
                   !.intervalId[lane] = 0]
    ELSE m

\* function clearRotationIntervals()
clearRotationIntervals(m) ==
    Only({ClearLane(d, "state") : d \in {ClearLane(x, "details") : x \in {m}}})

\* ArmLane arming for any non-empty pool ("lines.length > 0")
ArmLaneAnyPool(m, s, lane) ==
    LET mode == RandomMode(s, lane)
        raw == RandomLines(s, lane)
        interval == RandomInterval(s, lane)
    IN  IF mode # "" /\ mode # "disable" /\ LinesTruthy(raw) /\ interval # 0 /\ interval > 0
        THEN LET lines == ParseLines(raw)
                 id == NewTimerId(m.timers)
             IN  IF Len(lines) > 0
                 THEN [m EXCEPT
                         !.lastLines[lane] = lines,
                         !.intervalId[lane] = id,
                         !.timers = @ \cup {[id |-> id, lane |-> lane, mode |-> mode,
                                             lines |-> lines, period |-> interval,
                                             left |-> interval]}]
                 ELSE m
        ELSE m

\* one "Setup ... rotation" block of setupRotationIntervals
ArmLane(m, s, lane) ==
    LET mode == RandomMode(s, lane)
        raw == RandomLines(s, lane)
        interval == RandomInterval(s, lane)
    IN  IF mode # "" /\ mode # "disable" /\ LinesTruthy(raw) /\ interval # 0 /\ interval > 0
        THEN LET lines == ParseLines(raw)
                 id == NewTimerId(m.timers)
             IN  IF Len(lines) > 1
                 THEN [m EXCEPT
                         !.lastLines[lane] = lines,
                         !.intervalId[lane] = id,
                         !.timers = @ \cup {[id |-> id, lane |-> lane, mode |-> mode,
                                             lines |-> lines, period |-> interval,
                                             left |-> interval]}]
                 ELSE m
        ELSE m

\* setupRotationIntervals without its first line, clearRotationIntervals()
setupWithoutClear(m, s) ==
    Only({ArmLane(d, s, "state") : d \in {ArmLane(c, s, "details") : c \in {m}}})

\* function setupRotationIntervals()
setupRotationIntervals(m, s) ==
    Only({ArmLane(d, s, "state") :
            d \in {ArmLane(c, s, "details") : c \in {clearRotationIntervals(m)}}})

\* TimerCallback with the test of the mode inverted
TimerCallbackInverted(m, t, r) ==
    IF t.mode # "yes"
    THEN [m EXCEPT !.currentIndex[t.lane] = RandomIndex(r, Len(t.lines))]
    ELSE [m EXCEPT !.currentIndex[t.lane] = (@ + 1) % Len(t.lines)]

\* the body of a lane's setInterval callback, up to its call of setRpc()
TimerCallback(m, t, r) ==
    IF t.mode = "yes"
    THEN [m EXCEPT !.currentIndex[t.lane] = RandomIndex(r, Len(t.lines))]
    ELSE [m EXCEPT !.currentIndex[t.lane] = (@ + 1) % Len(t.lines)]

\* --------------------------------------------------------- createActivity
\* ResolveLane indexing the pool with the index as it is, without "% lines.length"
ResolveLaneNoWrap(m, s, lane, r) ==
    LET mode == RandomMode(s, lane)
        raw == RandomLines(s, lane)
        lines == ParseLines(raw)
        changed ==
            \/ Len(m.lastLines[lane]) # Len(lines)
            \/ ~(\A i \in 1..Len(m.lastLines[lane]) : m.lastLines[lane][i] = lines[i])
        m1 == IF changed
              THEN [m EXCEPT !.lastLines[lane] = lines, !.currentIndex[lane] = 0]
              ELSE m
    IN  IF mode # "" /\ mode # "disable" /\ LinesTruthy(raw) /\ Len(lines) > 0
        THEN [m |-> m1,
              text |-> IF mode = "yes"
                       THEN At(lines, RandomIndex(r, Len(lines)))
                       ELSE At(lines, m1.currentIndex[lane])]
        ELSE [m |-> m, text |-> StaticText(s, lane)]

\* "let finalDetails = details; if (detailsRandomMode && ...) { ... }" and its
\* twin for state: the lane's text and the rotation state it leaves
ResolveLane(m, s, lane, r) ==
    LET mode == RandomMode(s, lane)
        raw == RandomLines(s, lane)
        lines == ParseLines(raw)
        changed ==
            \/ Len(m.lastLines[lane]) # Len(lines)
            \/ ~(\A i \in 1..Len(m.lastLines[lane]) : m.lastLines[lane][i] = lines[i])
        m1 == IF changed
              THEN [m EXCEPT !.lastLines[lane] = lines, !.currentIndex[lane] = 0]
              ELSE m
    IN  IF mode # "" /\ mode # "disable" /\ LinesTruthy(raw) /\ Len(lines) > 0
        THEN [m |-> m1,
              text |-> IF mode = "yes"
                       THEN At(lines, RandomIndex(r, Len(lines)))
                       ELSE At(lines, m1.currentIndex[lane] % Len(lines))]
        ELSE [m |-> m, text |-> StaticText(s, lane)]

\* Timestamps with NOW mode reading the clock at every build ("start: Date.now()")
TimestampsFresh(anchor, s, now) ==
    CASE s.timestampMode = NOW ->
            [anchor |-> anchor, set |-> TRUE, ts |-> [k \in {"start"} |-> now]]
      [] s.timestampMode = TIME ->
            [anchor |-> anchor, set |-> TRUE,
             ts |-> [k \in {"start"} |-> now - (now % DayLength)]]
      [] s.timestampMode = CUSTOM /\ (s.startTime # 0 \/ s.endTime # 0) ->
            [anchor |-> anchor, set |-> TRUE,
             ts |-> [k \in ((IF s.startTime # 0 THEN {"start"} ELSE {})
                            \cup (IF s.endTime # 0 THEN {"end"} ELSE {}))
                     |-> IF k = "start" THEN s.startTime ELSE s.endTime]]
      [] OTHER -> [anchor |-> anchor, set |-> FALSE, ts |-> [k \in {} |-> 0]]

\* "switch (timestampMode)": the anchor it leaves and the timestamps object
\* (a function on a subset of {"start", "end"}; the empty one is "not set")
Timestamps(anchor, s, now) ==
    CASE s.timestampMode = NOW ->
            LET a == IF anchor = 0 THEN now ELSE anchor
            IN  [anchor |-> a, set |-> TRUE, ts |-> [k \in {"start"} |-> a]]
      [] s.timestampMode = TIME ->
            [anchor |-> anchor, set |-> TRUE,
             ts |-> [k \in {"start"} |-> now - (now % DayLength)]]
      [] s.timestampMode = CUSTOM /\ (s.startTime # 0 \/ s.endTime # 0) ->
            [anchor |-> anchor, set |-> TRUE,
             ts |-> [k \in ((IF s.startTime # 0 THEN {"start"} ELSE {})
                            \cup (IF s.endTime # 0 THEN {"end"} ELSE {}))
                     |-> IF k = "start" THEN s.startTime ELSE s.endTime]]
      [] OTHER -> [anchor |-> anchor, set |-> FALSE, ts |-> [k \in {} |-> 0]]

\* "const activity = { ... }" down to the buttons: the record assembled from
\* the lanes' texts d and st.  await is "big", "small" or "none": the image
\* whose getApplicationAsset call createActivity is then suspended in.
Assemble(d, st, s, now) ==
    LET a0 == [application_id |-> OrElse(s.appID, "0"),
               name |-> s.appName,
               state |-> st.text,
               details |-> d.text,
               type |-> IF s.type = -1 THEN PLAYING ELSE s.type,
               flags |-> 1]
        a1 == IF s.type = STREAMING THEN Put(a0, "url", s.streamLink) ELSE a0
        t == Timestamps(st.m.nowModeStartTime, s, now)
        a2 == IF t.set THEN Put(a1, "timestamps", t.ts) ELSE a1
        a3 == IF isTruthy(s.detailsURL) THEN Put(a2, "details_url", s.detailsURL) ELSE a2
        a4 == IF isTruthy(s.stateURL) THEN Put(a3, "state_url", s.stateURL) ELSE a3
        a5 == IF isTruthy(s.buttonOneText)
              THEN Put(Put(a4, "buttons", FilterTruthy(<<s.buttonOneText, s.buttonTwoText>>)),
                       "metadata",
                       [button_urls |-> FilterTruthy(<<s.buttonOneURL, s.buttonTwoURL>>)])
              ELSE a4
    IN  [m |-> [st.m EXCEPT !.nowModeStartTime = t.anchor],
         absent |-> FALSE,
         activity |-> a5,
         await |-> IF isTruthy(s.imageBig) THEN "big"
                   ELSE IF isTruthy(s.imageSmall) THEN "small" ELSE "none"]

\* createActivity after its "if (!appName) return", up to its first await (or
\* to its return when it awaits nothing)
BuildActivity(m, s, now, r) ==
    Only({Only({Assemble(d, st, s, now) :
                  st \in {ResolveLane(d.m, s, "state", r["state"])}}) :
            d \in {ResolveLane(x, s, "details", r["details"]) : x \in {m}}})

\* createActivity with the early return left out
createActivityUnguarded(m, s, now, r) == BuildActivity(m, s, now, r)

\* createActivity from its first line to its first await; absent is the early
\* "if (!appName) return"
createActivity(m, s, now, r) ==
    IF ~isTruthy(s.appName)
    THEN [m |-> m, absent |-> TRUE, activity |-> [k \in {} |-> 0], await |-> "none"]
    ELSE BuildActivity(m, s, now, r)

\* ApplicationAssetUtils.fetchAssetIds(appID, [key])[0], when it succeeds
AssetId(appID, key) == <<appID, key>>

\* "activity.assets = { large_image: ..., ... }" once the awaited id is there
AfterBig(s, activity, id) ==
    Put(activity, "assets",
        [large_image |-> id,
         large_text |-> OrElse(s.imageBigTooltip, Undefined),
         large_url |-> OrElse(s.imageBigURL, Undefined)])

\* "activity.assets = { ...activity.assets, small_image: ..., ... }"
AfterSmall(s, activity, id) ==
    LET old == IF "assets" \in DOMAIN activity THEN activity.assets ELSE [k \in {} |-> 0]
    IN  Put(activity, "assets",
            Put(Put(Put(old, "small_image", id),
                    "small_text", OrElse(s.imageSmallTooltip, Undefined)),
                "small_url", OrElse(s.imageSmallURL, Undefined)))

\* "!v || v.length === 0" for the value of key k
Prunable(k, v) ==
    CASE k \in {"application_id", "name", "state", "details", "url",
                "details_url", "state_url"} -> ~isTruthy(v)
      [] k \in {"type", "flags"} -> v = 0
      [] k = "buttons" -> Len(v) = 0
      [] OTHER -> FALSE      \* timestamps, metadata, assets, party: objects

\* Prune without its "if (k === "type") continue"
PruneTypeToo(activity) ==
    Only({[k \in {x \in DOMAIN a : ~Prunable(x, a[x])} |-> a[k]] : a \in {activity}})

\* "for (const k in activity) ..."
Prune(activity) ==
    Only({[k \in {x \in DOMAIN a : x = "type" \/ ~Prunable(x, a[x])} |-> a[k]] :
            a \in {activity}})

\* createActivity from after its last await to its return
Complete(s, activity) ==
    Prune(IF s.partyMaxSize # 0 /\ s.partySize # 0
          THEN Put(activity, "party", [size |-> <<s.partySize, s.partyMaxSize>>])
          ELSE activity)

\* ------------------------------------------------------------------ setRpc
\* setRpc(disable) from its first line to the await of createActivity():
\* armed is the module state createActivity starts from, b what it returns
setRpc(m, s, now, disable, r) ==
    Only({[armed |-> armed, b |-> createActivity(armed, s, now, r)] :
            armed \in {IF ~disable THEN setupRotationIntervals(m, s)
                       ELSE clearRotationIntervals(m)}})

\* the activity field of the LOCAL_ACTIVITY_UPDATE that setRpc dispatches
Dispatched(disable, absent, activity) ==
    IF disable THEN [kind |-> "null", activity |-> [k \in {} |-> 0]]
    ELSE IF absent THEN [kind |-> "undefined", activity |-> [k \in {} |-> 0]]
    ELSE [kind |-> "activity", activity |-> activity]

\* OnReject catching the rejection and dispatching the record as built so far
OnRejectPartial(c, snk) ==
    IF c.kind = "setRpc" THEN Dispatched(c.disable, FALSE, Complete(c.s, c.activity))
    ELSE snk

\* the sink after the await of getApplicationAsset of the suspended call c has
\* rejected: createActivity and the setRpc awaiting it reject in turn, and
\* setRpc's dispatch is not reached
OnReject(c, snk) == snk

\* the key a suspended call is resolving
AwaitedKey(c) == IF c.await = "big" THEN c.s.imageBig ELSE c.s.imageSmall

RemoveAt(seq, i) == SubSeq(seq, 1, i - 1) \o SubSeq(seq, i + 1, Len(seq))

\* what the run records about a createActivity call: the rotation state and
\* anchor it started from, and the texts and timestamp of the record it built
BuildNote(by, pre, b) ==
    [valid |-> TRUE, by |-> by, absent |-> b.absent, await |-> b.await,
     pre |-> [currentIndex |-> pre.currentIndex, lastLines |-> pre.lastLines,
              nowModeStartTime |-> pre.nowModeStartTime],
     text |-> [l \in Lanes |-> IF b.absent THEN Undefined ELSE
                               IF l = "details" THEN b.activity.details ELSE b.activity.state],
     start |-> IF ~b.absent /\ "timestamps" \in DOMAIN b.activity
                  /\ "start" \in DOMAIN b.activity.timestamps
               THEN b.activity.timestamps.start ELSE 0]

NoBuild ==
    [valid |-> FALSE, by |-> "", absent |-> TRUE, await |-> "none",
     pre |-> [currentIndex |-> [l \in Lanes |-> 0], lastLines |-> [l \in Lanes |-> <<>>],
              nowModeStartTime |-> 0],
     text |-> [l \in Lanes |-> Undefined], start |-> 0]

NoEnded ==
    [valid |-> FALSE, disable |-> FALSE, outcome |-> "", stale |-> FALSE, slot |-> "none"]

SetModule(m) ==
    /\ currentIndex' = m.currentIndex
    /\ intervalId' = m.intervalId
    /\ lastLines' = m.lastLines
    /\ nowModeStartTime' = m.nowModeStartTime
    /\ timers' = m.timers

\* The count of a lane's timer fires since the lane was armed with index 0 in
\* sequential mode under the settings still in force (-1: not counting).
\* Counting starts at a setRpc call that leaves the lane armed at index 0.
NextK(k, lane, by, after, s) ==
    IF k >= 0
    THEN IF by = (IF lane = "details" THEN "fire-details" ELSE "fire-state") THEN k + 1 ELSE k
    ELSE IF by # "stop" /\ after.intervalId[lane] # 0 /\ after.currentIndex[lane] = 0
            /\ RandomMode(s, lane) # "yes"
         THEN 0 ELSE -1

\* A call of setRpc(disable) made with the module state m (what the caller
\* left), by the operation `by`; h and pend are the history and the suspended
\* calls the caller leaves.  The call
\* runs to its dispatch when createActivity awaits nothing, and is suspended
\* in pending otherwise.
CallSetRpc(m, disable, r, by, h, pend) ==
    \E c \in {setRpc(m, settings, clock, disable, r)} :
    LET note == BuildNote(by, c.armed, c.b)
        k == [l \in Lanes |-> NextK(h.k[l], l, by, c.b.m, settings)]
    IN  /\ c.b.await # "none" => Len(pend) < MaxPending
        /\ SetModule(c.b.m)
        /\ IF c.b.await = "none"
           THEN /\ pending' = pend
                /\ sink' = Dispatched(disable, c.b.absent,
                                      IF c.b.absent THEN c.b.activity
                                      ELSE Complete(settings, c.b.activity))
                /\ hist' = [h EXCEPT !.build = note, !.k = k,
                               !.ended = [valid |-> TRUE, disable |-> disable,
                                          outcome |-> "dispatched", stale |-> FALSE,
                                          slot |-> "none"],
                               !.nullEvents = IF disable THEN @ + 1 ELSE @]
           ELSE /\ pending' = Append(pend,
                      [kind |-> "setRpc", disable |-> disable, s |-> settings,
                       activity |-> c.b.activity, await |-> c.b.await,
                       appIDs |-> <<settings.appID>>, stale |-> FALSE])
                /\ sink' = sink
                /\ hist' = [h EXCEPT !.build = note, !.k = k]

\* ----------------------------------------------------------------- actions
\* the values Math.random() can return where the code calls it: one draw per
\* lane in random mode for a build, one for the callback of a random-mode timer
Random == 0..(RandomGrid - 1)
Draws == {r \in [Lanes -> Random] : \A l \in Lanes : RandomMode(settings, l) # "yes" => r[l] = 0}
TimerDraws(t) == IF t.mode = "yes" THEN Random ELSE {0}

FireOp(lane) == IF lane = "details" THEN "fire-details" ELSE "fire-state"

\* start: () => { ... }
Start(r) ==
    /\ ~enabled
    /\ LET m1 == IF settings.timestampMode = NOW
                 THEN [Module EXCEPT !.nowModeStartTime = clock]
                 ELSE Module
           m2 == setupRotationIntervals(m1, settings)
       IN  CallSetRpc(m2, FALSE, r, "start",
                      [hist EXCEPT !.stops = 0, !.nullEvents = 0,
                                   !.session = IF settings.timestampMode = NOW
                                               THEN m1.nowModeStartTime ELSE 0,
                                   !.returned = 0,
                                   !.k = [l \in Lanes |-> -1]],
                      [i \in 1..Len(pending) |-> [pending[i] EXCEPT !.stale = TRUE]])
    /\ enabled' = TRUE
    /\ UNCHANGED <<settings, clock>>

\* stop: () => { ... }
Stop(r) ==
    /\ enabled \/ hist.stops > 0       \* the host stops what it has started
    /\ hist.stops < MaxStops
    /\ LET m1 == clearRotationIntervals(Module)
           m2 == [m1 EXCEPT !.nowModeStartTime = 0]
       IN  CallSetRpc(m2, TRUE, r, "stop",
                      [hist EXCEPT !.stops = @ + 1, !.session = 0, !.returned = 0,
                                   !.k = [l \in Lanes |-> -1]],
                      pending)
    /\ enabled' = FALSE
    /\ UNCHANGED <<settings, clock>>

\* setRpc() called from outside (the settings form, while the plugin is enabled)
Recompute(r) ==
    /\ enabled
    /\ CallSetRpc(Module, FALSE, r, "setRpc", hist, pending)
    /\ UNCHANGED <<settings, clock, enabled>>

\* a lane's timer fires: the callback passed to setInterval runs
Fire(t, rt, r) ==
    /\ t \in timers
    /\ t.left = 0
    /\ LET m1 == [Module EXCEPT !.timers = (@ \ {t}) \cup {[t EXCEPT !.left = t.period]}]
           m2 == TimerCallback(m1, t, rt)
       IN  CallSetRpc(m2, FALSE, r, FireOp(t.lane), hist, pending)
    /\ UNCHANGED <<settings, clock, enabled>>

\* settingsAboutComponent: useAwaiter(createActivity, ...) builds a record for
\* the preview; nothing is dispatched
Preview(r) ==
    \E b \in {createActivity(Module, settings, clock, r)} :
    LET note == BuildNote("preview", Module, b)
    IN  /\ b.await # "none" => Len(pending) < MaxPending
        /\ SetModule(b.m)
        /\ pending' = IF b.await = "none" THEN pending
                      ELSE Append(pending,
                             [kind |-> "preview", disable |-> FALSE, s |-> settings,
                              activity |-> b.activity, await |-> b.await,
                              appIDs |-> <<settings.appID>>, stale |-> FALSE])
        /\ hist' = [hist EXCEPT !.build = note]
        /\ UNCHANGED <<settings, clock, sink, enabled>>

\* the promise of getApplicationAsset that the i-th suspended call awaits
\* settles: it rejects (ok = FALSE) or resolves, and the call runs on to its
\* next await or to its end
Resolve(i, ok) ==
    /\ i \in 1..Len(pending)
    /\ LET c == pending[i]
           id == AssetId(c.appIDs[Len(c.appIDs)], AwaitedKey(c))
           act == IF c.await = "big" THEN AfterBig(c.s, c.activity, id)
                  ELSE AfterSmall(c.s, c.activity, id)
           more == c.await = "big" /\ isTruthy(c.s.imageSmall)
           counts == c.kind = "setRpc" /\ c.disable /\ ~c.stale
       IN  IF ~ok
           THEN /\ pending' = RemoveAt(pending, i)
                /\ sink' = OnReject(c, sink)
                /\ hist' = [hist EXCEPT !.ended =
                               [valid |-> c.kind = "setRpc", disable |-> c.disable,
                                outcome |-> "threw", stale |-> c.stale,
                                slot |-> c.await]]
           ELSE IF more
           THEN /\ pending' = [pending EXCEPT ![i] =
                       [c EXCEPT !.activity = act, !.await = "small",
                                 !.appIDs = Append(@, settings.appID)]]
                /\ sink' = sink
                /\ hist' = hist
           ELSE /\ pending' = RemoveAt(pending, i)
                /\ sink' = IF c.kind = "setRpc"
                           THEN Dispatched(c.disable, FALSE, Complete(c.s, act))
                           ELSE sink
                /\ hist' = [hist EXCEPT
                               !.ended = [valid |-> c.kind = "setRpc", disable |-> c.disable,
                                          outcome |-> "dispatched", stale |-> c.stale,
                                          slot |-> c.await],
                               !.nullEvents = IF counts THEN @ + 1 ELSE @]
    /\ UNCHANGED <<settings, currentIndex, intervalId, lastLines, nowModeStartTime,
                   timers, clock, enabled>>

\* a second passes: every live timer comes a second closer to firing; a due
\* timer fires before more time passes
Tick ==
    /\ clock < MaxClock
    /\ \A t \in timers : t.left > 0
    /\ clock' = clock + 1
    /\ timers' = {[t EXCEPT !.left = @ - 1] : t \in timers}
    /\ UNCHANGED <<settings, currentIndex, intervalId, lastLines, nowModeStartTime,
                   pending, sink, enabled, hist>>

\* the user edits one setting: settings.store[f] = v
Edit(f, v) ==
    /\ settings[f] # v
    /\ settings' = [settings EXCEPT ![f] = v]
    /\ hist' = [hist EXCEPT !.build = NoBuild,
                            !.k = [l \in Lanes |-> -1],
                            !.session = IF settings'.timestampMode = NOW THEN @ ELSE 0,
                            !.returned = IF settings'.timestampMode # NOW THEN 0
                                         ELSE IF enabled /\ settings.timestampMode # NOW
                                              THEN clock ELSE @]
    /\ UNCHANGED <<currentIndex, intervalId, lastLines, nowModeStartTime,
                   timers, clock, pending, sink, enabled>>

\* ----------------------------------------------------------- initial state
\* a configuration with nothing set
NoSettings ==
    [appID |-> "", appName |-> "", details |-> "", state |-> "",
     detailsRandomLines |-> <<>>, detailsRandomMode |-> "", detailsRandomInterval |-> 0,
     stateRandomLines |-> <<>>, stateRandomMode |-> "", stateRandomInterval |-> 0,
     detailsURL |-> "", stateURL |-> "", type |-> -1, streamLink |-> "",
     timestampMode |-> NONE, startTime |-> 0, endTime |-> 0,
     imageBig |-> "", imageBigURL |-> "", imageBigTooltip |-> "",
     imageSmall |-> "", imageSmallURL |-> "", imageSmallTooltip |-> "",
     buttonOneText |-> "", buttonOneURL |-> "", buttonTwoText |-> "", buttonTwoURL |-> "",
     partySize |-> 0, partyMaxSize |-> 0]

\* the module as loaded (lines 43-52), the plugin not started, given settings
InitWith(s) ==
    /\ settings = s
    /\ currentIndex = [l \in Lanes |-> 0]
    /\ intervalId = [l \in Lanes |-> 0]
    /\ lastLines = [l \in Lanes |-> <<>>]
    /\ nowModeStartTime = 0
    /\ timers = {}
    /\ clock = 1
    /\ pending = <<>>
    /\ sink = [kind |-> "none", activity |-> [k \in {} |-> 0]]
    /\ enabled = FALSE
    /\ hist = [build |-> NoBuild, ended |-> NoEnded, stops |-> 0, nullEvents |-> 0,
               session |-> 0, returned |-> 0, k |-> [l \in Lanes |-> -1]]

\* the hooks the host calls
Lifecycle ==
    \/ \E r \in Draws : Start(r)
    \/ \E r \in Draws : Stop(r)

\* the timers and the passage of time
Timing ==
    \/ \E t \in timers, r \in Draws : \E rt \in TimerDraws(t) : Fire(t, rt, r)
    \/ Tick

\* the calls the settings form makes
Recomputes ==
    \/ \E r \in Draws : Recompute(r)
    \/ \E r \in Draws : Preview(r)

Resolution == \E i \in 1..MaxPending, ok \in BOOLEAN : Resolve(i, ok)

BaseSettings ==
    [NoSettings EXCEPT !.appID = "1", !.appName = "App", !.details = "d", !.state = "s"]

PoolABC == <<"a", "b", "c">>
PoolAB == <<"a", " ", "b">>

\* ---- Spec: rotation.  Both lanes armed; the user edits pools and modes.
RotationSettings ==
    [BaseSettings EXCEPT !.detailsRandomLines = PoolABC, !.detailsRandomMode = "no",
                         !.detailsRandomInterval = 1,
                         !.stateRandomLines = PoolAB, !.stateRandomMode = "no",
                         !.stateRandomInterval = 2]

EditRotation ==
    \/ \E v \in {PoolAB, PoolABC} : Edit("detailsRandomLines", v)
    \/ \E v \in {"disable", "yes", "no"} : Edit("detailsRandomMode", v)
    \/ \E v \in {"yes", "no"} : Edit("stateRandomMode", v)

Init == InitWith(RotationSettings)

Next == Lifecycle \/ Timing \/ Recomputes \/ EditRotation

Spec == Init /\ [][Next]_vars

\* ---- SpecAnchor: timestamps.  The user edits the timestamp mode and the name.
AnchorSettings ==
    [BaseSettings EXCEPT !.detailsRandomLines = PoolAB, !.detailsRandomMode = "no",
                         !.detailsRandomInterval = 1,
                         !.stateRandomLines = PoolAB, !.stateRandomMode = "yes",
                         !.stateRandomInterval = 2,
                         !.timestampMode = NOW]

EditAnchor ==
    \/ \E v \in {"", "App"} : Edit("appName", v)
    \/ \E v \in {NONE, NOW, TIME, CUSTOM} : Edit("timestampMode", v)

InitAnchor == InitWith(AnchorSettings)

NextAnchor == Lifecycle \/ Timing \/ Recomputes \/ EditAnchor

SpecAnchor == InitAnchor /\ [][NextAnchor]_vars

\* ---- SpecCycle: publish cycles suspended in asset resolution.
CycleSettings ==
    [BaseSettings EXCEPT !.detailsRandomLines = PoolAB, !.detailsRandomMode = "no",
                         !.detailsRandomInterval = 1,
                         !.imageBig = "big"]

EditCycle == \E v \in {"", "big"} : Edit("imageBig", v)

InitCycle == InitWith(CycleSettings)

NextCycle == Lifecycle \/ Timing \/ Resolution \/ EditCycle

SpecCycle == InitCycle /\ [][NextCycle]_vars

\* ---- SpecBuild: createActivity on its own, called for the settings preview.
BuildSettings ==
    [BaseSettings EXCEPT !.detailsRandomLines = PoolAB, !.detailsRandomMode = "no",
                         !.detailsRandomInterval = 1,
                         !.timestampMode = NOW,
                         !.imageBig = "big", !.imageSmall = "small"]

EditBuild ==
    \/ \E v \in {"", "App"} : Edit("appName", v)
    \/ \E v \in {"", "big"} : Edit("imageBig", v)
    \/ \E v \in {PoolAB, PoolABC} : Edit("detailsRandomLines", v)
    \/ \E v \in {NONE, NOW} : Edit("timestampMode", v)

InitBuild == InitWith(BuildSettings)

NextBuild == (\E r \in Draws : Preview(r)) \/ Resolution \/ EditBuild

SpecBuild == InitBuild /\ [][NextBuild]_vars

\* ---- SpecRecord: the fields of the record.  No lane rotates; the user edits
\* the static text, the activity type and the buttons.
RecordSettings ==
    [BaseSettings EXCEPT !.type = PLAYING,
                         !.buttonOneText = "B1", !.buttonOneURL = "u1",
                         !.buttonTwoURL = "u2"]

EditRecord ==
    \/ \E v \in {"", "d"} : Edit("details", v)
    \/ \E v \in {-1, PLAYING, STREAMING} : Edit("type", v)
    \/ \E v \in {"", "link"} : Edit("streamLink", v)
    \/ \E v \in {"", "B1"} : Edit("buttonOneText", v)
    \/ \E v \in {"", "u1"} : Edit("buttonOneURL", v)
    \/ \E v \in {"", "u2"} : Edit("buttonTwoURL", v)

InitRecord == InitWith(RecordSettings)

NextRecord == Lifecycle \/ Recomputes \/ EditRecord

SpecRecord == InitRecord /\ [][NextRecord]_vars

\* ---- SpecArm: arming.  The user edits the mode, the pool and the interval of
\* the details lane, and the interval of the state lane.
ArmSettings ==
    [BaseSettings EXCEPT !.detailsRandomLines = PoolAB, !.detailsRandomMode = "no",
                         !.detailsRandomInterval = 1,
                         !.stateRandomLines = PoolAB, !.stateRandomMode = "no",
                         !.stateRandomInterval = 2]

PoolBlank == <<" ">>
PoolA == <<"a", " ">>

EditArm ==
    \/ \E v \in {<<>>, PoolBlank, PoolA, PoolAB} : Edit("detailsRandomLines", v)
    \/ \E v \in {"", "disable", "no"} : Edit("detailsRandomMode", v)
    \/ \E v \in {-1, 0, 1} : Edit("detailsRandomInterval", v)
    \/ \E v \in {0, 2} : Edit("stateRandomInterval", v)

InitArm == InitWith(ArmSettings)

NextArm == Lifecycle \/ Timing \/ (\E r \in Draws : Recompute(r)) \/ EditArm

SpecArm == InitArm /\ [][NextArm]_vars

\* ---- SpecSlots: both image slots, with a lane rotating.  Publish cycles
\* suspended in the resolution of the large and then of the small image.
SlotSettings ==
    [BaseSettings EXCEPT !.detailsRandomLines = PoolAB, !.detailsRandomMode = "no",
                         !.detailsRandomInterval = 1,
                         !.imageBig = "big", !.imageSmall = "small"]

InitSlots == InitWith(SlotSettings)

NextSlots == Lifecycle \/ Timing \/ Resolution

SpecSlots == InitSlots /\ [][NextSlots]_vars

\* ---- SpecAsset: both image slots, no rotation; the user edits appID while
\* publish cycles are suspended.
AssetSettings == [BaseSettings EXCEPT !.imageBig = "big", !.imageSmall = "small"]

EditAsset == \E v \in {"1", "2"} : Edit("appID", v)

InitAsset == InitWith(AssetSettings)

NextAsset == Lifecycle \/ Resolution \/ EditAsset

SpecAsset == InitAsset /\ [][NextAsset]_vars

\* ------------------------------------------------------------------ claims
\* the lines of a lane's pool under the settings in force
PoolOf(lane) == ParseLines(RandomLines(settings, lane))

\* this step is the timer of the lane firing: the timer is due, and the step
\* leaves a record built by that lane's callback (no other step does, with the
\* lane's timer due)
FireStep(lane) ==
    /\ \E t \in timers : t.lane = lane /\ t.left = 0
    /\ hist'.build.valid /\ hist'.build.by = FireOp(lane)
    /\ settings' = settings

BothArmed == \A l \in Lanes : intervalId[l] # 0

\* C1: while both lanes are armed, a timer fire on one lane leaves the other
\* lane's timer as it was: the time the other timer has left to its next fire
\* is neither extended nor reset by the fire.
C1_LanesIndependent ==
    [][\A l \in Lanes :
         (FireStep(l) /\ BothArmed) =>
            \A t \in timers : t.lane # l =>
                \E u \in timers' : u.lane = t.lane /\ u.left = t.left]_vars

\* C2: after stop(), and until the next start(), no lane has a live timer or a
\* stored handle, whatever publish cycles were in flight and however they end.
C2_StoppedMeansIdle ==
    (~enabled /\ hist.stops > 0) =>
        (timers = {} /\ \A l \in Lanes : intervalId[l] = 0)

\* stop() has run while a publish cycle started by a timer fire or by start()
\* was suspended in asset resolution
C2_Witness ==
    /\ ~enabled /\ hist.stops > 0
    /\ \E i \in 1..Len(pending) : pending[i].kind = "setRpc" /\ ~pending[i].disable
    /\ \E i \in 1..Len(pending) : pending[i].kind = "setRpc" /\ pending[i].disable

\* C3: every disable cycle (the setRpc(true) of a stop()) that has ended has
\* dispatched its null, whatever asset resolution answered.
C3_DisableDeliversNull ==
    (hist.ended.valid /\ hist.ended.disable) => hist.ended.outcome = "dispatched"

\* C4: after stop() and stop() again with no start() in between, the sink has
\* received at most one null since the start().
C4_SecondStopSilent ==
    hist.stops >= 2 => hist.nullEvents <= 1

\* C5: between a start() and the next stop(), with timestampMode NOW
\* throughout, the anchor is the instant start() captured and every record
\* built carries it as timestamps.start.
C5_AnchorStable ==
    (enabled /\ hist.session # 0) =>
        /\ nowModeStartTime = hist.session
        /\ (hist.build.valid /\ ~hist.build.absent) => hist.build.start = hist.session

\* a timer fire builds a record after the clock has moved on from the anchor
C5_Witness ==
    /\ enabled /\ hist.session # 0 /\ clock > hist.session
    /\ hist.build.valid /\ ~hist.build.absent
    /\ hist.build.by = "fire-details"

\* C6: once stop() and its disable cycle have completed, the Now-Anchor is
\* null, timestampMode NOW with appName set included.
C6_StopClearsAnchor ==
    (/\ ~enabled
     /\ hist.build.valid /\ hist.build.by = "stop"
     /\ \A i \in 1..Len(pending) : ~pending[i].disable)
        => nowModeStartTime = 0

\* C7: each lane has at most one live timer, and the lane's stored handle is
\* that timer's.
C7_OneTimerPerLane ==
    \A l \in Lanes :
        LET live == {t \in timers : t.lane = l}
        IN  /\ Cardinality(live) <= 1
            /\ \A t \in live : intervalId[l] = t.id

\* both lanes armed again by the setRpc() of a timer callback
C7_Witness ==
    /\ Cardinality(timers) = 2
    /\ hist.build.valid /\ hist.build.by = "fire-details"
    /\ hist.stops = 0 /\ enabled

\* C8: with appName empty, createActivity returns absent, has called the
\* asset-resolution service for nothing, and has left the indices, the
\* recorded pools and the Now-Anchor as they were.
C8_AbsentWithoutAppName ==
    /\ (hist.build.valid /\ ~isTruthy(settings.appName)) =>
          /\ hist.build.absent
          /\ hist.build.await = "none"
          /\ hist.build.pre = [currentIndex |-> currentIndex, lastLines |-> lastLines,
                               nowModeStartTime |-> nowModeStartTime]
    /\ \A i \in 1..Len(pending) : isTruthy(pending[i].s.appName)

\* a build without appName, with an image configured, a pool the module has
\* not recorded, and NOW mode with no anchor
C8_Witness ==
    /\ hist.build.valid /\ ~isTruthy(settings.appName)
    /\ isTruthy(settings.imageBig)
    /\ settings.timestampMode = NOW /\ nowModeStartTime = 0
    /\ lastLines["details"] # PoolOf("details")

\* C9: for a lane armed in sequential mode with index 0, under unchanged
\* settings (appName set, so that a record is built), the record published by
\* the lane's k-th timer fire carries the pool's line at position k mod n.
C9_SequentialOrder ==
    \A l \in Lanes :
        (/\ hist.k[l] > 0
         /\ hist.build.valid /\ hist.build.by = FireOp(l)
         /\ isTruthy(settings.appName)) =>
            /\ sink.kind = "activity"
            /\ sink.activity[l] = At(PoolOf(l), hist.k[l] % Len(PoolOf(l)))
            /\ hist.build.text[l] = sink.activity[l]

\* the third fire over a three-line pool publishes the first line again
C9_Witness ==
    /\ hist.k["details"] = 3 /\ Len(PoolOf("details")) = 3
    /\ hist.build.valid /\ hist.build.by = "fire-details"
    /\ sink.kind = "activity" /\ sink.activity["details"] = "a"

\* C10: in every build where a lane's mode is not disabled and its pool is not
\* empty, the lane's text is a line of the pool as configured.
C10_SelectionInPool ==
    \A l \in Lanes :
        (/\ hist.build.valid /\ ~hist.build.absent
         /\ RandomMode(settings, l) \notin {"", "disable"}
         /\ Len(PoolOf(l)) > 0) =>
            \E i \in 1..Len(PoolOf(l)) : PoolOf(l)[i] = hist.build.text[l]

\* a build at index 2 over a pool that has been replaced by a two-line pool
C10_Witness ==
    /\ hist.build.valid /\ ~hist.build.absent
    /\ settings.detailsRandomMode = "no"
    /\ Len(PoolOf("details")) = 2
    /\ hist.build.pre.currentIndex["details"] = 2
    /\ currentIndex["details"] = 2

\* this step runs createActivity from its first line under the settings in
\* force: a start(), a stop(), a setRpc(), a timer fire or a direct call (the
\* steps that leave the settings and the clock alone and resume no suspended call)
BuildStep ==
    /\ settings' = settings /\ clock' = clock
    /\ hist'.build.valid
    /\ Len(pending') >= Len(pending)
    /\ \A i \in 1..Len(pending) : pending'[i].await = pending[i].await

\* the lane takes its text from its pool, in sequential mode, and a record is built
SequentialLane(lane) ==
    /\ isTruthy(settings.appName)
    /\ RandomMode(settings, lane) = "no"
    /\ LinesTruthy(RandomLines(settings, lane))
    /\ Len(PoolOf(lane)) > 0

\* C11: a build that finds a lane's pool different from the pool last recorded
\* for the lane, whether setRpc runs it or it is called directly, leaves the
\* lane's index at 0 and gives the lane the new pool's first line.
C11_PoolChangeResets ==
    [][\A l \in Lanes :
         (BuildStep /\ SequentialLane(l) /\ lastLines[l] # PoolOf(l)) =>
            /\ currentIndex'[l] = 0
            /\ hist'.build.text[l] = At(PoolOf(l), 0)]_vars

\* the sink holds the record that the latest publish cycle built, under the
\* settings in force
Published ==
    /\ hist.build.valid /\ ~hist.build.absent /\ hist.build.await = "none"
    /\ hist.build.by \in {"start", "setRpc", "fire-details", "fire-state"}
    /\ Len(pending) = 0
    /\ sink.kind = "activity"

\* the value v of the top-level field k is falsy or an empty sequence
FalsyOrEmpty(k, v) ==
    CASE k \in {"application_id", "name", "state", "details", "url",
                "details_url", "state_url"} -> v = "" \/ v = Undefined
      [] k \in {"type", "flags"} -> v = 0
      [] k = "buttons" -> v = <<>>
      [] OTHER -> FALSE

\* C12: every record that createActivity returns has the field type, whatever
\* its value, and no other top-level field whose value is falsy or an empty
\* sequence; with details "" and type 0 it has type 0 and no details.
C12_Pruned ==
    sink.kind = "activity" =>
        /\ "type" \in DOMAIN sink.activity
        /\ \A k \in DOMAIN sink.activity \ {"type"} : ~FalsyOrEmpty(k, sink.activity[k])
        /\ (Published /\ settings.details = "") => "details" \notin DOMAIN sink.activity

\* a record published with details "" and type 0 (PLAYING)
C12_Witness ==
    /\ Published
    /\ settings.details = "" /\ settings.type = PLAYING
    /\ sink.activity.type = 0
    /\ "details" \notin DOMAIN sink.activity

\* C13: with the first button's label present, its URL absent and the second
\* URL present, the URL list of the record does not carry the second URL at
\* the first button's position.
C13_ButtonUrlNotShifted ==
    (/\ Published
     /\ isTruthy(settings.buttonOneText)
     /\ ~isTruthy(settings.buttonOneURL)
     /\ isTruthy(settings.buttonTwoURL)
     /\ "metadata" \in DOMAIN sink.activity) =>
        At(sink.activity.metadata.button_urls, 0) # settings.buttonTwoURL

\* C17: with the first button's label present, the record has a metadata
\* field (button_urls) only if one of the two button URLs is set.
C17_MetadataOnlyWithUrls ==
    (/\ Published
     /\ isTruthy(settings.buttonOneText)
     /\ "metadata" \in DOMAIN sink.activity) =>
        (isTruthy(settings.buttonOneURL) \/ isTruthy(settings.buttonTwoURL))

\* the three conditions of the claim, in the settings in force
ArmingCondition(lane) ==
    /\ RandomMode(settings, lane) \notin {"", "disable"}
    /\ Len(PoolOf(lane)) > 1
    /\ RandomInterval(settings, lane) > 0

\* the latest call that read the settings in force was start() or a
\* non-disable setRpc()
AfterEnableCall ==
    /\ hist.build.valid
    /\ hist.build.by \in {"start", "setRpc", "fire-details", "fire-state"}

\* C14: after start() or a non-disable setRpc(), a lane is armed (a handle and
\* its one live timer, at the configured interval) if and only if its mode is
\* not disabled, its pool without blank lines has more than one line and its
\* interval is positive; otherwise it has no handle and no timer.
C14_ArmedIffPreconditions ==
    AfterEnableCall =>
        \A l \in Lanes :
            IF ArmingCondition(l)
            THEN /\ intervalId[l] # 0
                 /\ \E t \in timers :
                        /\ t.id = intervalId[l] /\ t.lane = l
                        /\ t.period = RandomInterval(settings, l)
            ELSE /\ intervalId[l] = 0
                 /\ \A t \in timers : t.lane # l

\* a setRpc() over a one-line pool (a blank line discarded) leaves the lane
\* idle and publishes the line
C14_Witness ==
    /\ AfterEnableCall /\ hist.build.by = "setRpc"
    /\ settings.detailsRandomLines = PoolA
    /\ settings.detailsRandomMode = "no" /\ settings.detailsRandomInterval > 0
    /\ intervalId["details"] = 0 /\ intervalId["state"] # 0
    /\ sink.kind = "activity" /\ sink.activity.details = "a"

\* C15: every step that takes a lane from idle (no handle) to armed records
\* the lane's pool and leaves the lane's index at 0, so that the record the
\* arming call builds in sequential mode carries the pool's first line.
C15_ArmingResetsIndex ==
    [][\A l \in Lanes :
         (intervalId[l] = 0 /\ intervalId'[l] # 0) =>
            /\ lastLines'[l] = ParseLines(RandomLines(settings', l))
            /\ currentIndex'[l] = 0
            /\ (BuildStep /\ SequentialLane(l)) => hist'.build.text[l] = At(PoolOf(l), 0)]_vars

\* C16: when timestampMode has come back to NOW from another mode while the
\* plugin is running (hist.returned is the instant of the return), every
\* record built since carries an anchor captured at the return or after it,
\* not the instant captured in the earlier NOW period.
C16_AnchorRecapturedOnReturn ==
    (/\ enabled /\ hist.returned # 0
     /\ hist.build.valid /\ ~hist.build.absent) =>
        hist.build.start >= hist.returned

\* this step is the asset resolution of a suspended call failing: the call
\* ends, and ends by throwing
FailureStep ==
    /\ Len(pending') = Len(pending) - 1
    /\ hist'.ended.outcome = "threw"

\* C18: when the asset resolution of either image slot fails in a publish
\* cycle, the cycle ends there: nothing is delivered to the sink (no partial
\* record), the call is not suspended again (no retry), and the lanes' timers,
\* handles, indices and recorded pools stay as they were.
C18_FailurePropagated ==
    [][FailureStep =>
         /\ sink' = sink
         /\ \E i \in 1..Len(pending) : pending' = RemoveAt(pending, i)
         /\ UNCHANGED <<currentIndex, intervalId, lastLines, timers>>]_vars

\* the resolution of the small image has failed, after the large image was
\* resolved, in a cycle started while the lane's timer runs; the sink keeps
\* the record of an earlier cycle
C18_Witness ==
    /\ hist.ended.valid /\ ~hist.ended.disable /\ hist.ended.outcome = "threw"
    /\ hist.ended.slot = "small"
    /\ enabled /\ timers # {}
    /\ sink.kind = "activity"

\* C19: every getApplicationAsset call of a build is made with the appID the
\* build read at its start: a suspended call has used no other appID, and a
\* published record's large and small image are resolved against the
\* application of its application_id.
C19_OneSnapshot ==
    /\ \A i \in 1..Len(pending) :
          \A j \in 1..Len(pending[i].appIDs) : pending[i].appIDs[j] = pending[i].s.appID
    /\ (sink.kind = "activity" /\ "assets" \in DOMAIN sink.activity) =>
          \A k \in DOMAIN sink.activity.assets \cap {"large_image", "small_image"} :
              sink.activity.assets[k][1] = sink.activity.application_id

\* C20: once stop() has been called and every publish cycle has finished,
\* the disable cycle of each stop() having dispatched and the last cycle to
\* end having dispatched too, the sink's last value is null.
C20_ClearedAfterStop ==
    (/\ ~enabled /\ hist.stops > 0
     /\ Len(pending) = 0
     /\ hist.nullEvents = hist.stops
     /\ hist.ended.valid /\ hist.ended.outcome = "dispatched") =>
        sink.kind = "null"

\* this step is a publish that the lane's own timer did not cause: a setRpc()
\* from outside or the other lane's timer fire, dispatching a record
PublishNotBy(lane) ==
    /\ BuildStep
    /\ hist'.build.by \in {"setRpc", "fire-details", "fire-state"} \ {FireOp(lane)}
    /\ sink'.kind = "activity"

\* C21: with the configuration unchanged, a publish that the lane's own timer
\* fire did not cause carries the same text for the lane as the publish
\* before it, in sequential mode and in random mode alike.
C21_TextChangesOnOwnFireOnly ==
    [][\A l \in Lanes :
         (Published /\ PublishNotBy(l)) => sink'.activity[l] = sink.activity[l]]_vars

====
